---- MODULE Spec2Model ----
(***************************************************************************)
(* Model of the command runner of tf-manage2 (package framework): RunCmd,  *)
(* execSystemCommand, parseCommand, execCommand and parseStatus, in the    *)
(* concurrent-pump variant (two pump goroutines feeding outputChan, one    *)
(* printer goroutine).                                                     *)
(*                                                                         *)
(* A Go string is a sequence of one-character strings (command lines) or a *)
(* sequence of tokens (captured buffers: each line is followed by the      *)
(* token <<"\n">>, as output.WriteString(line + "\n") builds them; an       *)
(* error text is the one token <<text>>).                                  *)
(*                                                                         *)
(* Further specifications in this module: SpecManager (Manager.Execute of  *)
(* package terraform under cli.Execute, each RunCmd call being one step),  *)
(* SpecExecMode (detectExecMode over the environments), SpecWorkspaceName  *)
(* (generateWorkspace over the names), SpecConcurrent (two RunCmd calls    *)
(* in pipe-capture mode made concurrently), SpecFair (a pipe-capture run   *)
(* under fair scheduling, with lines longer than the scanner's buffer),    *)
(* SpecUnbalanced (RunCmd on command lines with an unmatched quote),       *)
(* SpecStatusLine (the status line of parseStatus over the messages) and   *)
(* SpecCompletion (Completion.SuggestEnvironments over directory trees).   *)
(***************************************************************************)
EXTENDS Integers, Sequences, FiniteSets, TLC

(***************************************************************************)
(* Bounds of the model.                                                    *)
(***************************************************************************)
\* longest white-space-only command line explored
MaxCmdLen == 2
\* most lines the child writes to one stream
MaxLines == 2
\* lines an OS pipe holds before the writer blocks
PipeCap == 1
\* capacity of outputChan (make(chan outputLine, 100) in the code, scaled)
ChanCap == 1

(***************************************************************************)
(* Strings.                                                                *)
(***************************************************************************)
\* variant: only the blank counts as white space
WhiteSpaceBlankOnly == {" "}

\* the characters strings.TrimSpace cuts (the white space among Chars)
WhiteSpace == {" ", "\t"}
Quotes == {"\"", "'"}
NoQuote == "NUL"

\* the command lines passed to RunCmd: every command of blanks and tabs up to
\* MaxCmdLen, a pair of quotes with nothing between them, and a program with
\* one argument
BlankCommands == UNION {[1..n -> {" ", "\t"}] : n \in 0..MaxCmdLen}
Commands == BlankCommands \cup {<<"\"", "\"">>, <<"a", " ", "a">>}

Streams == {"stdout", "stderr"}

\* the text of the i-th line the child writes to stream s
LineText(s, i) == <<s, i>>

\* strings.Builder.WriteString(line + "\n")
WriteString(buf, line) == buf \o <<line, <<"\n">> >>

\* the Go string made of the given lines, each terminated by a newline
RECURSIVE JoinLines(_)
JoinLines(lines) ==
    IF lines = <<>> THEN <<>>
    ELSE WriteString(JoinLines(SubSeq(lines, 1, Len(lines) - 1)), lines[Len(lines)])

RECURSIVE TrimLeft(_)
TrimLeft(s) == IF s # <<>> /\ Head(s) \in WhiteSpace THEN TrimLeft(Tail(s)) ELSE s

RECURSIVE TrimRight(_)
TrimRight(s) ==
    IF s # <<>> /\ s[Len(s)] \in WhiteSpace
    THEN TrimRight(SubSeq(s, 1, Len(s) - 1))
    ELSE s

\* strings.TrimSpace
TrimSpace(s) == TrimRight(TrimLeft(s))

(***************************************************************************)
(* parseCommand: shell-like split on spaces outside quotes.                *)
(***************************************************************************)
ParseInit == [parts |-> <<>>, current |-> <<>>, inQuotes |-> FALSE, quoteChar |-> NoQuote]

ParseStep(st, char) ==
    IF ~st.inQuotes /\ char \in Quotes
    THEN [st EXCEPT !.inQuotes = TRUE, !.quoteChar = char]
    ELSE IF st.inQuotes /\ char = st.quoteChar
    THEN [st EXCEPT !.inQuotes = FALSE, !.quoteChar = NoQuote]
    ELSE IF ~st.inQuotes /\ char = " "
    THEN (IF st.current # <<>>
          THEN [st EXCEPT !.parts = Append(@, st.current), !.current = <<>>]
          ELSE st)
    ELSE [st EXCEPT !.current = Append(@, char)]

RECURSIVE ParseLoop(_, _, _)
ParseLoop(cmdStr, i, st) ==
    IF i > Len(cmdStr) THEN st
    ELSE ParseLoop(cmdStr, i + 1, ParseStep(st, cmdStr[i]))

NoProgram == [program |-> <<>>, args |-> <<>>]

parseCommand(cmdStr) ==
    LET t == TrimSpace(cmdStr) IN
    IF t = <<>> THEN NoProgram
    ELSE LET st == ParseLoop(t, 1, ParseInit)
             parts == IF st.current # <<>> THEN Append(st.parts, st.current) ELSE st.parts
         IN  IF parts = <<>> THEN NoProgram
             ELSE [program |-> parts[1], args |-> Tail(parts)]

(***************************************************************************)
(* Flags and results.                                                      *)
(***************************************************************************)
\* the exit codes the child may end with
ExitCodes == {0, 1, 2}

\* the values of flags.ValidExitCodes explored
ValidExitCodeSets == SUBSET {0, 1}

DefaultCmdFlags ==
    [Strict |-> FALSE, PrintCmd |-> FALSE, DecorateOutput |-> FALSE,
     PrintOutput |-> TRUE, PrintMessage |-> TRUE, PrintStatus |-> TRUE,
     PrintOutcome |-> FALSE, ValidExitCodes |-> {0}]

\* the flag values explored: every combination of the flags that steer the
\* run (PrintCmd and PrintOutcome, which only add text, are left off)
FlagSpace ==
    [Strict : BOOLEAN, PrintCmd : {FALSE}, DecorateOutput : BOOLEAN,
     PrintOutput : BOOLEAN, PrintMessage : BOOLEAN, PrintStatus : BOOLEAN,
     PrintOutcome : {FALSE}, ValidExitCodes : ValidExitCodeSets]

\* a nil *CmdFlags
NilFlags == [nil |-> TRUE]

\* RunCmd: if flags == nil { flags = DefaultCmdFlags() }
EffectiveFlags(f) == IF f = NilFlags THEN DefaultCmdFlags ELSE f

NoResult == [nil |-> TRUE]

EmptyCommandResult ==
    [ExitCode |-> 1, Success |-> FALSE, Output |-> <<>>, Error |-> << <<"empty command">> >>]

\* variant: the success flag of a launch failure derived from the valid codes
LaunchFailureDerived(fl, err) ==
    [ExitCode |-> 1, Success |-> 1 \in fl.ValidExitCodes, Output |-> <<>>,
     Error |-> << <<err>> >>]

\* the result returned when StdoutPipe, StderrPipe or Start fails with err
LaunchFailure(fl, err) ==
    [ExitCode |-> 1, Success |-> FALSE, Output |-> <<>>, Error |-> << <<err>> >>]

\* variant: only exit code 0 counts as success
IsValidExitZeroOnly(fl, exitCode) == exitCode = 0

\* success := exitCode is one of flags.ValidExitCodes
IsValidExit(fl, exitCode) == exitCode \in fl.ValidExitCodes

\* the result of a process that was started and waited for
ExitResult(fl, exitCode, out, err) ==
    [ExitCode |-> exitCode, Success |-> IsValidExit(fl, exitCode),
     Output |-> out, Error |-> err]

(***************************************************************************)
(* State of one RunCmd call.                                               *)
(***************************************************************************)
VARIABLES
    command,      \* the command line passed to RunCmd
    flags,        \* the flags in effect (after the nil check)
    pc,           \* position of the calling goroutine
    wiring,       \* what the child's stdin, stdout and stderr are connected to
    launch,       \* "none", "started" or "failed": outcome of starting the child
    child,        \* "none", "running" or "exited"
    childExit,    \* exit code of the child once it has exited
    wrote,        \* per stream, the lines the child has written
    pipe,         \* per stream, the lines written and not yet read
    pipeState,    \* per stream, "none", "open" or "closed" (parent's read end)
    pump,         \* per stream, position of the pump goroutine
    pumpLine,     \* per stream, the line the pump goroutine holds
    output,       \* per stream, the captured buffer (output, errorOutput)
    outputChan,   \* the queue between the pumps and the printer
    chanState,    \* "none", "open" or "closed"
    printer,      \* position of the printer goroutine
    printerLine,  \* the outputLine the printer holds
    writing,      \* goroutines with a write of a relayed line in progress
    console,      \* what has reached the host's stdout and stderr, in order
    result,       \* the *CmdResult of execSystemCommand, NoResult before
    hostExit      \* exit status of the host program, -1 while it runs

(***************************************************************************)
(* State of one Manager.Execute call (package terraform) and of the tf     *)
(* process around it (package cli).                                        *)
(***************************************************************************)
VARIABLES
    environ,       \* the process environment, as os.Getenv reads it
    tfCommand,     \* the *Command that cli.parseCommand built (cmd)
    config,        \* the loaded configuration (RepoName)
    fs,            \* which of the validated paths exist
    mpc,           \* position inside cli.Execute / Manager.Execute
    execMode,      \* what detectExecMode returned, NoMode before
    checked,       \* the validations performed so far, in order
    workspaceName, \* what generateWorkspace returned, NoName before
    procs,         \* the external processes launched so far, in order
    tfWorkspace,   \* the value of TF_WORKSPACE, NoName while unset
    execErr,       \* what Manager.Execute returned, NoErr before
    actionExit,    \* exit code of the child that ran the action, -1 if there was none
    tfExit         \* exit status of the tf process, -1 while it runs

(***************************************************************************)
(* Concurrent RunCmd calls.                                                *)
(***************************************************************************)
VARIABLES
    runs           \* per call, the locals of its activation of execCommand

(***************************************************************************)
(* Single functions: the status line of parseStatus and the environment    *)
(* suggestions of the completion.                                          *)
(***************************************************************************)
VARIABLES
    present,       \* one call of parseStatus: its inputs and the line it printed
    completion     \* one call of SuggestEnvironments: its inputs and its outcome

runnerVars == <<command, flags, pc, wiring, launch, child, childExit, wrote, pipe,
                pipeState, pump, pumpLine, output, outputChan, chanState, printer,
                printerLine, writing, console, result, hostExit>>

managerVars == <<environ, tfCommand, config, fs, mpc, execMode, checked, workspaceName,
                 procs, tfWorkspace, execErr, actionExit, tfExit>>

concVars == <<runs>>

auxVars == <<present, completion>>

vars == <<runnerVars, managerVars, concVars, auxVars>>

childVars == <<child, childExit, wrote>>
pipeVars == <<pipe, pipeState>>
pumpVars == <<pump, pumpLine, output>>
printerVars == <<printer, printerLine, writing>>
chanVars == <<outputChan, chanState>>
inputVars == <<command, flags>>

(***************************************************************************)
(* The manager: execution mode.  The environment is what os.Getenv         *)
(* returns for each variable ("" when it is unset).                        *)
(***************************************************************************)
\* most environment variables set at once
MaxEnvSet == 2

EnvVars ==
    {"TF_EXEC_MODE_OVERRIDE", "GITHUB_ACTIONS", "GITLAB_CI", "CIRCLECI", "TRAVIS",
     "TF_BUILD", "JENKINS_URL", "BUILD_NUMBER", "USER", "bamboo_buildKey",
     "TEAMCITY_VERSION", "BUILDKITE", "DRONE", "CODEBUILD_BUILD_ID", "CI"}

EnvValues == {"", "true", "True", "1", "0", "jenkins"}

EmptyEnv == [v \in EnvVars |-> ""]

\* the environments with at most n variables set
RECURSIVE EnvsWith(_)
EnvsWith(n) ==
    IF n = 0 THEN {EmptyEnv}
    ELSE LET prev == EnvsWith(n - 1)
         IN  prev \cup {[e EXCEPT ![v] = x] : e \in prev, v \in EnvVars, x \in EnvValues}

Envs == EnvsWith(MaxEnvSet)

\* the colour codes of printer.go
Reset == "ESC[0m"
Red == "ESC[31m"
Green == "ESC[32m"

AddEmphasisRed(text) == <<Red>> \o text \o <<Reset>>
AddEmphasisGreen(text) == <<Green>> \o text \o <<Reset>>

\* variant: the detection that knows Jenkins' user only
isRunningInCIJenkinsUser(e) == e["USER"] = "jenkins"

isRunningInCI(e) ==
    \/ e["GITHUB_ACTIONS"] = "true"
    \/ e["GITLAB_CI"] = "true"
    \/ e["CIRCLECI"] = "true"
    \/ e["TRAVIS"] = "true"
    \/ e["TF_BUILD"] = "True"
    \/ e["JENKINS_URL"] # "" \/ e["BUILD_NUMBER"] # ""
    \/ e["bamboo_buildKey"] # ""
    \/ e["TEAMCITY_VERSION"] # ""
    \/ e["BUILDKITE"] = "true"
    \/ e["DRONE"] = "true"
    \/ e["CODEBUILD_BUILD_ID"] # ""
    \/ e["CI"] = "true" \/ e["CI"] = "1"
    \/ e["USER"] = "jenkins"

\* the string detectExecMode returns
detectExecMode(e) ==
    LET unattended == AddEmphasisRed(<<"unattended">>)
        interactive == AddEmphasisGreen(<<"operator">>)
    IN  IF e["TF_EXEC_MODE_OVERRIDE"] # "" THEN unattended
        ELSE IF isRunningInCI(e) THEN unattended
        ELSE interactive

\* m.detectExecMode() == "unattended", as the action functions test it
IsUnattended(e) == detectExecMode(e) = <<"unattended">>

(***************************************************************************)
(* The manager: workspace name.  Names are sequences of characters.        *)
(***************************************************************************)
\* longest environment name explored
MaxEnvLen == 2

NameChars == {"a", "/", "_", "."}

EnvNames == UNION {[1..n -> NameChars] : n \in 0..MaxEnvLen}

\* the other components, some of them with a slash or a dot inside
PartNames == {<<"p">>, <<"p", "/", "q">>, <<"p", ".", "q">>}

\* variant: only the first occurrence is replaced
RECURSIVE ReplaceFirst(_, _, _)
ReplaceFirst(s, old, new) ==
    IF s = <<>> THEN <<>>
    ELSE IF Head(s) = old THEN new \o Tail(s)
    ELSE <<Head(s)>> \o ReplaceFirst(Tail(s), old, new)

\* strings.ReplaceAll(s, old, new) for a one-character old
RECURSIVE ReplaceAll(_, _, _)
ReplaceAll(s, old, new) ==
    IF s = <<>> THEN <<>>
    ELSE (IF Head(s) = old THEN new ELSE <<Head(s)>>) \o ReplaceAll(Tail(s), old, new)

generateWorkspace(c, cfg) ==
    LET envSanitized == ReplaceAll(c.Env, "/", <<"_", "_">>)
    IN  c.Product \o <<".">> \o cfg.RepoName \o <<".">> \o c.Module \o <<".">>
        \o envSanitized \o <<".">> \o c.ModuleInstance

(***************************************************************************)
(* The manager: the inputs of one tf invocation.                           *)
(***************************************************************************)
\* the cases of the switch in executeTerraformAction
SupportedActions ==
    {"init", "plan", "apply", "apply_plan", "destroy", "output", "get", "workspace",
     "providers", "import", "taint", "untaint", "state", "refresh", "validate",
     "fmt", "format", "show"}

\* first word of the fifth argument: a supported action or something else
TfActions == SupportedActions \cup {"frobnicate"}

\* the *Command values explored; Workspace is the sixth argument without its
\* "workspace=" prefix, <<>> when there were five arguments
TfCommands ==
    [Product : {<<"p">>}, Module : {<<"m">>}, Env : {<<"d">>, <<"s", "/", "b">>},
     ModuleInstance : {<<"i">>}, Action : TfActions,
     ActionFlags : {<<>>, <<"-no-color">>}, Workspace : {<<>>, <<"c">>}]

Configs == [RepoName : {<<>>, <<"r">>}]

\* what exists on disk: the product directory, the module directory, the
\* environment directory inside the product's, the instance's .tfvars file
\* inside the environment's; and what terraform holds of the instance's
\* workspace: none, one that is not selected, or the selected one
FileSystems ==
    {f \in [productDir : BOOLEAN, moduleDir : BOOLEAN, envDir : BOOLEAN,
            varFile : BOOLEAN, workspace : {"absent", "listed", "current"}] :
        /\ f.envDir => f.productDir
        /\ f.varFile => f.envDir
        /\ f.workspace # "absent" => (f.moduleDir /\ f.varFile)}

\* the environments a tf invocation is explored in
ManagerEnvs ==
    {EmptyEnv,
     [EmptyEnv EXCEPT !["TF_EXEC_MODE_OVERRIDE"] = "1"],
     [EmptyEnv EXCEPT !["GITHUB_ACTIONS"] = "true"],
     [EmptyEnv EXCEPT !["CI"] = "0"]}

NoMode == <<>>
NoName == <<"(unset)">>
NoErr == [nil |-> TRUE]

\* the manager before cli.Execute has called it
ManagerStart ==
    /\ execMode = NoMode
    /\ checked = <<>>
    /\ workspaceName = NoName
    /\ procs = <<>>
    /\ tfWorkspace = NoName
    /\ execErr = NoErr
    /\ actionExit = -1
    /\ tfExit = -1

\* no tf invocation is under way
ManagerIdle ==
    /\ environ = EmptyEnv
    /\ tfCommand = CHOOSE c \in TfCommands : TRUE
    /\ config = CHOOSE c \in Configs : TRUE
    /\ fs = CHOOSE f \in FileSystems : TRUE
    /\ mpc = "none"
    /\ ManagerStart

NoLine == <<"none">>
\* the zero outputLine the printer holds before its first receive
NoOutputLine == [text |-> NoLine, isStderr |-> FALSE, decorate |-> FALSE]
NoWiring == [stdin |-> "unset", stdout |-> "unset", stderr |-> "unset"]
PerStream(v) == [s \in Streams |-> v]

\* the host program is still executing (it has neither exited nor crashed)
HostAlive == pc \notin {"exited", "panicked"}

\* the concurrent calls explored, and the lines each child writes at most
Calls == {1, 2}
CallLines == 1

\* no call of parseStatus or SuggestEnvironments is looked at
NoPresent == [nil |-> TRUE]
NoCompletion == [nil |-> TRUE]
AuxIdle == present = NoPresent /\ completion = NoCompletion

\* no concurrent calls are under way
NoCalls == runs = [c \in Calls |-> [pc |-> "none"]]

\* one RunCmd call before its first step
RunnerStart ==
    /\ wiring = NoWiring
    /\ launch = "none"
    /\ child = "none"
    /\ childExit = -1
    /\ wrote = PerStream(<<>>)
    /\ pipe = PerStream(<<>>)
    /\ pipeState = PerStream("none")
    /\ pump = PerStream("none")
    /\ pumpLine = PerStream(NoLine)
    /\ output = PerStream(<<>>)
    /\ outputChan = <<>>
    /\ chanState = "none"
    /\ printer = "none"
    /\ printerLine = NoOutputLine
    /\ writing = {}
    /\ console = <<>>
    /\ result = NoResult
    /\ hostExit = -1

\* no RunCmd call is under way
RunnerIdle ==
    /\ command = <<>>
    /\ flags = DefaultCmdFlags
    /\ pc = "none"
    /\ RunnerStart

Init ==
    /\ NoCalls
    /\ AuxIdle
    /\ command \in Commands
    /\ \E f \in FlagSpace \cup {NilFlags} : flags = EffectiveFlags(f)
    /\ pc = "RunCmd"
    /\ RunnerStart
    /\ ManagerIdle

(***************************************************************************)
(* RunCmd, up to the call of execSystemCommand.                            *)
(***************************************************************************)
\* Info(text): one line on the host's stderr
InfoLine(text) == [fd |-> "stderr", kind |-> "info", text |-> text]

RunCmdMessages(fl, cmd) ==
    (IF fl.PrintMessage THEN <<InfoLine(<<"message">>)>> ELSE <<>>)
    \o (IF fl.PrintCmd THEN <<InfoLine(cmd)>> ELSE <<>>)

RunCmd ==
    /\ pc = "RunCmd"
    /\ console' = console \o RunCmdMessages(flags, command)
    /\ pc' = "execSystemCommand"
    /\ UNCHANGED <<auxVars, concVars, managerVars, inputVars, launch, wiring, childVars, pipeVars, pumpVars, chanVars,
                   printerVars, result, hostExit>>

(***************************************************************************)
(* execSystemCommand: the empty-command checks and exec.Command.           *)
(***************************************************************************)
\* the command is rejected before anything is launched
IsEmptyCommand(cmd) ==
    \/ TrimSpace(cmd) = <<>>
    \/ parseCommand(cmd).program = <<>>

execSystemCommand ==
    /\ pc = "execSystemCommand"
    /\ IF IsEmptyCommand(command)
       THEN /\ result' = EmptyCommandResult
            /\ pc' = "parseStatus"
       ELSE /\ result' = result
            /\ pc' = "execCommand"
    /\ UNCHANGED <<auxVars, concVars, managerVars, inputVars, launch, wiring, childVars, pipeVars, pumpVars, chanVars,
                   printerVars, console, hostExit>>

(***************************************************************************)
(* execCommand: wiring and start of the child.                             *)
(***************************************************************************)
\* variant: the mode test inverted
isInteractiveInverted(fl) == fl.DecorateOutput

\* isInteractive := !flags.DecorateOutput
isInteractive(fl) == ~fl.DecorateOutput

\* pass-through: cmd.Stdin, cmd.Stdout, cmd.Stderr = os.Stdin, os.Stdout, os.Stderr
InteractiveWiring == [stdin |-> "host", stdout |-> "host", stderr |-> "host"]

\* capture: StdoutPipe and StderrPipe, cmd.Stdin left nil (the null device)
CaptureWiring == [stdin |-> "null", stdout |-> "pipe", stderr |-> "pipe"]

\* interactive branch: cmd.Start() succeeds or fails
StartInteractive ==
    /\ pc = "execCommand"
    /\ isInteractive(flags)
    /\ wiring' = InteractiveWiring
    /\ \E started \in BOOLEAN :
         IF started
         THEN /\ launch' = "started"
              /\ child' = "running"
              /\ pc' = "Wait"
              /\ result' = result
         ELSE /\ launch' = "failed"
              /\ child' = child
              /\ pc' = "parseStatus"
              /\ result' = LaunchFailure(flags, "start failed")
    /\ UNCHANGED <<auxVars, concVars, managerVars, inputVars, childExit, wrote, pipeVars, pumpVars, chanVars,
                   printerVars, console, hostExit>>

\* capture branch: StdoutPipe or StderrPipe fails
PipeFailure ==
    /\ pc = "execCommand"
    /\ ~isInteractive(flags)
    /\ launch' = "failed"
    /\ pc' = "parseStatus"
    /\ result' = LaunchFailure(flags, "pipe failed")
    /\ UNCHANGED <<auxVars, concVars, managerVars, inputVars, wiring, childVars, pipeVars, pumpVars, chanVars,
                   printerVars, console, hostExit>>

\* capture branch: cmd.Start() fails after both pipes were made; Start closes them
StartFailure ==
    /\ pc = "execCommand"
    /\ ~isInteractive(flags)
    /\ wiring' = CaptureWiring
    /\ pipeState' = PerStream("closed")
    /\ launch' = "failed"
    /\ pc' = "parseStatus"
    /\ result' = LaunchFailure(flags, "start failed")
    /\ UNCHANGED <<auxVars, concVars, managerVars, inputVars, childVars, pipe, pumpVars, chanVars,
                   printerVars, console, hostExit>>

\* capture branch: cmd.Start() succeeds; outputChan is made and the printer and
\* the two pump goroutines are started
StartCapture ==
    /\ pc = "execCommand"
    /\ ~isInteractive(flags)
    /\ wiring' = CaptureWiring
    /\ pipeState' = PerStream("open")
    /\ launch' = "started"
    /\ child' = "running"
    /\ chanState' = "open"
    /\ printer' = "recv"
    /\ pump' = PerStream("scan")
    /\ pc' = "Wait"
    /\ UNCHANGED <<auxVars, concVars, managerVars, inputVars, childExit, wrote, pipe, pumpLine, output, outputChan,
                   printerLine, writing, console, result, hostExit>>

(***************************************************************************)
(* The child process.                                                      *)
(***************************************************************************)
\* a line the child wrote straight to the host's stdout or stderr
ChildLine(s, line) == [fd |-> s, kind |-> "child", text |-> line]

\* bufio.Scanner gives up on a line longer than its buffer
\* (MaxScanTokenSize): a piece of such a line, as long as that buffer and
\* without a newline
Oversize(s) == <<s, 0>>

\* the pieces of a line longer than the scanner's buffer and the pipe's
\* buffer together
LongLinePieces == PipeCap + 2

PiecesWritten(s) == Len(SelectSeq(wrote[s], LAMBDA line : line = Oversize(s)))

\* the child is inside the write of a long line
MidLine == \E s \in Streams : PiecesWritten(s) \in 1..(LongLinePieces - 1)

\* the child writes the next piece of a long line to the pipe of stream s
ChildWriteLong(s) ==
    /\ child = "running"
    /\ HostAlive
    /\ wiring[s] = "pipe"
    /\ pipeState[s] = "open"
    /\ Len(pipe[s]) < PipeCap
    /\ PiecesWritten(s) < LongLinePieces
    /\ \A t \in Streams \ {s} : PiecesWritten(t) = 0
    /\ wrote' = [wrote EXCEPT ![s] = Append(@, Oversize(s))]
    /\ pipe' = [pipe EXCEPT ![s] = Append(@, Oversize(s))]
    /\ UNCHANGED <<auxVars, concVars, managerVars, inputVars, launch, pc, wiring, child, childExit, pipeState, pumpVars,
                   chanVars, printerVars, console, result, hostExit>>

\* the child writes its next line to stream s
ChildWrite(s) ==
    /\ child = "running"
    /\ HostAlive
    /\ ~MidLine
    /\ Len(wrote[s]) < MaxLines
    /\ LET line == LineText(s, Len(wrote[s]) + 1) IN
       /\ wrote' = [wrote EXCEPT ![s] = Append(@, line)]
       /\ IF wiring[s] = "pipe"
          THEN /\ pipeState[s] = "open"
               /\ Len(pipe[s]) < PipeCap
               /\ pipe' = [pipe EXCEPT ![s] = Append(@, line)]
               /\ console' = console
          ELSE /\ pipe' = pipe
               /\ console' = Append(console, ChildLine(s, line))
    /\ UNCHANGED <<auxVars, concVars, managerVars, inputVars, launch, pc, wiring, child, childExit, pipeState, pumpVars,
                   chanVars, printerVars, result, hostExit>>

\* the child exits with code c; its ends of the pipes are closed
ChildExit(c) ==
    /\ child = "running"
    /\ HostAlive
    /\ ~MidLine
    /\ child' = "exited"
    /\ childExit' = c
    /\ UNCHANGED <<auxVars, concVars, managerVars, inputVars, launch, pc, wiring, wrote, pipeVars, pumpVars, chanVars,
                   printerVars, console, result, hostExit>>

(***************************************************************************)
(* cmd.Wait().                                                             *)
(***************************************************************************)
\* what Wait does to the parent's read end of a pipe once the child is gone:
\* os/exec closes it, and what was not read yet is dropped
WaitClosesPipe(state) == IF state = "open" THEN "closed" ELSE state

\* variant: the pass-through run hands back what the child wrote as well
WaitKeepsOutput ==
    /\ pc = "Wait"
    /\ child = "exited"
    /\ pipeState' = [s \in Streams |-> WaitClosesPipe(pipeState[s])]
    /\ pipe' = [s \in Streams |-> IF pipeState'[s] = "closed" THEN <<>> ELSE pipe[s]]
    /\ IF isInteractive(flags)
       THEN /\ result' = ExitResult(flags, childExit, JoinLines(wrote["stdout"]),
                                    JoinLines(wrote["stderr"]))
            /\ pc' = "parseStatus"
       ELSE /\ result' = result
            /\ pc' = "pumpWg.Wait"
    /\ UNCHANGED <<auxVars, concVars, managerVars, inputVars, launch, wiring, childVars, pumpVars,
                   chanVars, printerVars, console, hostExit>>

Wait ==
    /\ pc = "Wait"
    /\ child = "exited"
    /\ pipeState' = [s \in Streams |-> WaitClosesPipe(pipeState[s])]
    /\ pipe' = [s \in Streams |-> IF pipeState'[s] = "closed" THEN <<>> ELSE pipe[s]]
    /\ IF isInteractive(flags)
       THEN /\ result' = ExitResult(flags, childExit, <<>>, <<>>)
            /\ pc' = "parseStatus"
       ELSE /\ result' = result
            /\ pc' = "pumpWg.Wait"
    /\ UNCHANGED <<auxVars, concVars, managerVars, inputVars, launch, wiring, childVars, pumpVars, chanVars, printerVars,
                   console, hostExit>>

(***************************************************************************)
(* The pump goroutines (one per pipe).                                     *)
(***************************************************************************)
outputLine(s, line, fl) ==
    [text |-> line, isStderr |-> (s = "stderr"), decorate |-> fl.DecorateOutput]

\* the console line written for an outputLine (clean: no other write of a
\* relayed line was in progress): tagged and on stdout when
\* decorated, bare and on the line's own stream otherwise
RelayLine(ol, clean) ==
    [fd |-> IF ~ol.decorate /\ ol.isStderr THEN "stderr" ELSE "stdout",
     kind |-> "relay",
     tag |-> IF ~ol.decorate THEN "" ELSE IF ol.isStderr THEN "[err]" ELSE "[cmd]",
     text |-> ol.text,
     clean |-> clean]

\* scanner.Scan() and output.WriteString(line + "\n"): the next line of the
\* pipe, or the end of the loop on end of file, on a read error or on a
\* line that does not fit the scanner's buffer (bufio.ErrTooLong)
PumpScan(s) ==
    /\ pump[s] = "scan"
    /\ HostAlive
    /\ IF pipeState[s] = "open" /\ pipe[s] # <<>> /\ Head(pipe[s]) = Oversize(s)
       THEN /\ pipe' = [pipe EXCEPT ![s] = Tail(@)]
            /\ pump' = [pump EXCEPT ![s] = "done"]
            /\ UNCHANGED <<output, pumpLine>>
       ELSE IF pipeState[s] = "open" /\ pipe[s] # <<>>
       THEN /\ pipe' = [pipe EXCEPT ![s] = Tail(@)]
            /\ output' = [output EXCEPT ![s] = WriteString(@, Head(pipe[s]))]
            /\ pumpLine' = [pumpLine EXCEPT ![s] = Head(pipe[s])]
            /\ pump' = [pump EXCEPT ![s] = IF flags.PrintOutput THEN "send" ELSE "scan"]
       ELSE /\ pipeState[s] = "closed" \/ child = "exited"
            /\ pump' = [pump EXCEPT ![s] = "done"]
            /\ UNCHANGED <<pipe, output, pumpLine>>
    /\ UNCHANGED <<auxVars, concVars, managerVars, inputVars, launch, pc, wiring, childVars, pipeState, chanVars,
                   printerVars, console, result, hostExit>>

\* variant: the pump goroutine prints the line itself instead of queueing it
PumpPrintDirect(s) ==
    /\ pump[s] = "send"
    /\ HostAlive
    /\ IF s \notin writing
       THEN /\ writing' = writing \cup {s}
            /\ UNCHANGED <<pump, console>>
       ELSE /\ console' = Append(console,
                    RelayLine(outputLine(s, pumpLine[s], flags), writing = {s}))
            /\ writing' = writing \ {s}
            /\ pump' = [pump EXCEPT ![s] = "scan"]
    /\ UNCHANGED <<auxVars, concVars, managerVars, inputVars, launch, pc, wiring, childVars, pipeVars, pumpLine,
                   output, chanVars, printer, printerLine, result, hostExit>>

\* outputChan <- outputLine{...}: blocks while the queue is full, and a send
\* on a closed channel panics, which ends the host program
PumpSend(s) ==
    /\ pump[s] = "send"
    /\ HostAlive
    /\ IF chanState = "closed"
       THEN /\ pc' = "panicked"
            /\ UNCHANGED <<pump, outputChan>>
       ELSE /\ Len(outputChan) < ChanCap
            /\ outputChan' = Append(outputChan, outputLine(s, pumpLine[s], flags))
            /\ pump' = [pump EXCEPT ![s] = "scan"]
            /\ pc' = pc
    /\ UNCHANGED <<auxVars, concVars, managerVars, inputVars, launch, wiring, childVars, pipeVars, pumpLine, output,
                   chanState, printerVars, console, result, hostExit>>

(***************************************************************************)
(* The printer goroutine.                                                  *)
(***************************************************************************)
\* for line := range outputChan: receive the next line, or end when the
\* channel is closed and empty
PrinterRecv ==
    /\ printer = "recv"
    /\ HostAlive
    /\ IF outputChan # <<>>
       THEN /\ printerLine' = Head(outputChan)
            /\ outputChan' = Tail(outputChan)
            /\ printer' = "write"
            /\ writing' = writing \cup {"printer"}
       ELSE /\ chanState = "closed"
            /\ printer' = "done"
            /\ UNCHANGED <<printerLine, outputChan, writing>>
    /\ UNCHANGED <<auxVars, concVars, managerVars, inputVars, launch, pc, wiring, childVars, pipeVars, pumpVars, chanState,
                   console, result, hostExit>>

\* fmt.Println of the received line completes
PrinterWrite ==
    /\ printer = "write"
    /\ HostAlive
    /\ console' = Append(console, RelayLine(printerLine, writing = {"printer"}))
    /\ writing' = writing \ {"printer"}
    /\ printer' = "recv"
    /\ UNCHANGED <<auxVars, concVars, managerVars, inputVars, launch, pc, wiring, childVars, pipeVars, pumpVars, chanVars,
                   printerLine, result, hostExit>>

(***************************************************************************)
(* execCommand after Wait: pumpWg.Wait(), close(outputChan), printWg.Wait() *)
(* and the result.                                                         *)
(***************************************************************************)
\* variant: the pumps are not waited for
PumpWgDoneNoWait == TRUE

\* variant: one pump goroutine is missing from the wait group
PumpWgDoneOnePump == \E s \in Streams : pump[s] = "done"

\* pumpWg.Wait() returns: both pump goroutines have run their deferred Done
PumpWgDone == \A s \in Streams : pump[s] = "done"

\* variant: the printer is not waited for
PrintWgDoneNoWait == TRUE

\* printWg.Wait() returns
PrintWgDone == printer = "done"

\* pumpWg.Wait() followed by close(outputChan)
PumpWgWait ==
    /\ pc = "pumpWg.Wait"
    /\ PumpWgDone
    /\ chanState' = "closed"
    /\ pc' = "printWg.Wait"
    /\ UNCHANGED <<auxVars, concVars, managerVars, inputVars, launch, wiring, childVars, pipeVars, pumpVars, outputChan,
                   printerVars, console, result, hostExit>>

\* printWg.Wait(), then the exit code, the success flag and the result
PrintWgWait ==
    /\ pc = "printWg.Wait"
    /\ PrintWgDone
    /\ result' = ExitResult(flags, childExit, output["stdout"], output["stderr"])
    /\ pc' = "parseStatus"
    /\ UNCHANGED <<auxVars, concVars, managerVars, inputVars, launch, wiring, childVars, pipeVars, pumpVars, chanVars,
                   printerVars, console, hostExit>>

(***************************************************************************)
(* parseStatus, and the return of RunCmd.                                  *)
(***************************************************************************)
\* the values of the variadic failMessage
FailMessages == {<<>>, <<"">>, <<"failed">>}

StatusLine(res, fl) ==
    [fd |-> "stdout", kind |-> "status", ok |-> res.Success,
     outcome |-> IF ~fl.PrintOutcome THEN ""
                 ELSE IF res.Success THEN "(done)"
                 ELSE IF fl.Strict THEN "(aborting...)" ELSE "(continuing...)"]

\* Error(text): one line on the host's stderr
ErrorLine(text) == [fd |-> "stderr", kind |-> "error", text |-> text]

\* variant: a strict failure leaves before the status line is printed
StatusOutputSilentAbort(res, fl, failMessage) ==
    IF ~fl.PrintStatus \/ (~res.Success /\ fl.Strict) THEN <<>>
    ELSE <<StatusLine(res, fl)>>
         \o (IF ~res.Success /\ Len(failMessage) > 0 /\ failMessage[1] # ""
             THEN <<ErrorLine(failMessage[1])>> ELSE <<>>)

\* what parseStatus prints for a result
StatusOutput(res, fl, failMessage) ==
    IF ~fl.PrintStatus THEN <<>>
    ELSE <<StatusLine(res, fl)>>
         \o (IF ~res.Success /\ Len(failMessage) > 0 /\ failMessage[1] # ""
             THEN <<ErrorLine(failMessage[1])>> ELSE <<>>)

\* variant: a strict failure ends the program whether or not the status is printed
StatusExitsUnprinted(res, fl) == ~res.Success /\ fl.Strict

\* parseStatus ends in os.Exit(result.ExitCode)
StatusExits(res, fl) == fl.PrintStatus /\ ~res.Success /\ fl.Strict

parseStatus ==
    /\ pc = "parseStatus"
    /\ \E failMessage \in FailMessages :
         console' = console \o StatusOutput(result, flags, failMessage)
    /\ IF StatusExits(result, flags)
       THEN /\ pc' = "exited"
            /\ hostExit' = result.ExitCode
       ELSE /\ pc' = "returned"
            /\ hostExit' = hostExit
    /\ UNCHANGED <<auxVars, concVars, managerVars, inputVars, launch, wiring, childVars, pipeVars, pumpVars, chanVars,
                   printerVars, result>>

Next ==
    \/ RunCmd
    \/ execSystemCommand
    \/ StartInteractive
    \/ PipeFailure
    \/ StartFailure
    \/ StartCapture
    \/ \E s \in Streams : ChildWrite(s)
    \/ \E c \in ExitCodes : ChildExit(c)
    \/ Wait
    \/ \E s \in Streams : PumpScan(s)
    \/ \E s \in Streams : PumpSend(s)
    \/ PrinterRecv
    \/ PrinterWrite
    \/ PumpWgWait
    \/ PrintWgWait
    \/ parseStatus

Spec == Init /\ [][Next]_vars

(***************************************************************************)
(* A pipe-capture run under fair scheduling, the child writing lines of    *)
(* any length.  The Go scheduler runs every goroutine that can take a      *)
(* step, and the operating system runs the child while it is not blocked.  *)
(***************************************************************************)
CaptureRuns ==
    {f \in FlagSpace : /\ f.DecorateOutput /\ f.PrintMessage /\ f.PrintStatus
                       /\ f.ValidExitCodes = {0}}

InitFair ==
    /\ NoCalls
    /\ AuxIdle
    /\ command = <<"a">>
    /\ flags \in CaptureRuns
    /\ pc = "RunCmd"
    /\ RunnerStart
    /\ ManagerIdle

\* the goroutine that called RunCmd
CallerStep ==
    \/ RunCmd
    \/ execSystemCommand
    \/ PipeFailure
    \/ StartFailure
    \/ StartCapture
    \/ Wait
    \/ PumpWgWait
    \/ PrintWgWait
    \/ parseStatus

\* the goroutine that drains the pipe of stream s
PumpStep(s) == PumpScan(s) \/ PumpSend(s)

\* the goroutine that prints the queued lines
PrinterStep == PrinterRecv \/ PrinterWrite

\* the child process
ChildStep ==
    \/ \E s \in Streams : ChildWrite(s)
    \/ \E s \in Streams : ChildWriteLong(s)
    \/ \E c \in ExitCodes : ChildExit(c)

NextFair ==
    \/ RunCmd
    \/ execSystemCommand
    \/ PipeFailure
    \/ StartFailure
    \/ StartCapture
    \/ \E s \in Streams : ChildWrite(s)
    \/ \E s \in Streams : ChildWriteLong(s)
    \/ \E c \in ExitCodes : ChildExit(c)
    \/ Wait
    \/ \E s \in Streams : PumpScan(s)
    \/ \E s \in Streams : PumpSend(s)
    \/ PrinterRecv
    \/ PrinterWrite
    \/ PumpWgWait
    \/ PrintWgWait
    \/ parseStatus

Fairness ==
    /\ WF_vars(CallerStep)
    /\ \A s \in Streams : WF_vars(PumpStep(s))
    /\ WF_vars(PrinterStep)
    /\ WF_vars(ChildStep)

SpecFair == InitFair /\ [][NextFair]_vars /\ Fairness

(***************************************************************************)
(* Manager.Execute, called from cli.Execute.  A call of RunCmd is one      *)
(* step here: the process it launches is appended to procs and its result  *)
(* is the one the runner builds from the outcome of the launch.            *)
(***************************************************************************)
\* a launch fails, or the child runs and ends with an exit code
LaunchFailed == -1
Outcomes == {LaunchFailed} \cup ExitCodes

\* the *CmdResult of RunCmd for an outcome and the text the child printed
RunCmdResult(fl, outcome, childOut) ==
    IF outcome = LaunchFailed THEN LaunchFailure(fl, "start failed")
    ELSE ExitResult(fl, outcome, IF isInteractive(fl) THEN <<>> ELSE childOut, <<>>)

\* one launched process: the step of Execute, the command line as a sequence
\* of arguments, the runner entry point used, the Success of the result the
\* runner gave back, and what the child printed where the caller looks at it
Proc(step, cmdline, runner, res) ==
    [step |-> step, cmdline |-> cmdline, runner |-> runner,
     success |-> res.Success, stdout |-> <<>>]

\* variant: the repository name is looked at first
ValidationOrderRepoFirst == <<"repo", "product", "module", "env", "config">>

\* the order of the checks in validateCommand
ValidationOrder == <<"product", "repo", "module", "env", "config">>

\* the outcome of one check of validateCommand
ValidationPasses(v, c, cfg, f) ==
    CASE v = "product" -> f.productDir
      [] v = "repo" -> cfg.RepoName # <<>>
      [] v = "module" -> f.moduleDir
      [] v = "env" -> f.envDir
      [] v = "config" -> f.varFile

\* the checks validateCommand performs, up to and including the first that fails
RECURSIVE RunValidations(_, _, _, _)
RunValidations(order, c, cfg, f) ==
    IF order = <<>> THEN <<>>
    ELSE IF ValidationPasses(Head(order), c, cfg, f)
         THEN <<Head(order)>> \o RunValidations(Tail(order), c, cfg, f)
         ELSE <<Head(order)>>

\* validateCommand returned nil
ValidationOk(done, c, cfg, f) ==
    /\ Len(done) = Len(ValidationOrder)
    /\ ValidationPasses(done[Len(done)], c, cfg, f)

PlainError(msg) == [kind |-> "error", msg |-> msg]
NewExitCodeError(message, exitCode) ==
    [kind |-> "ExitCodeError", msg |-> message, ExitCode |-> exitCode]

\* Execute up to the version probe: the mode banner, validateCommand,
\* computePaths and generateWorkspace
Execute ==
    /\ mpc = "Execute"
    /\ execMode' = detectExecMode(environ)
    /\ checked' = RunValidations(ValidationOrder, tfCommand, config, fs)
    /\ IF ValidationOk(checked', tfCommand, config, fs)
       THEN /\ workspaceName' = generateWorkspace(tfCommand, config)
            /\ mpc' = "getTerraformVersion"
            /\ execErr' = execErr
       ELSE /\ workspaceName' = workspaceName
            /\ mpc' = "cli"
            /\ execErr' = PlainError(<<checked'[Len(checked')], "validation failed">>)
    /\ UNCHANGED <<auxVars, concVars, runnerVars, environ, tfCommand, config, fs, procs, tfWorkspace,
                   actionExit, tfExit>>

\* flags of getTerraformVersion
VersionFlags ==
    [DefaultCmdFlags EXCEPT !.PrintMessage = FALSE, !.PrintOutput = FALSE,
                            !.PrintStatus = FALSE, !.PrintOutcome = FALSE]

\* getTerraformVersion: the JSON probe, then the plain probe unless the
\* first one succeeded with a version in its captured output
getTerraformVersion ==
    /\ mpc = "getTerraformVersion"
    /\ \E jsonOutcome \in Outcomes, textOutcome \in Outcomes :
         LET res == RunCmdResult(VersionFlags, jsonOutcome, <<"1.9.5">>)
             textRes == RunCmdResult(VersionFlags, textOutcome, <<"1.9.5">>)
             json == Proc("version", <<"terraform", "version", "-json">>, "RunCmd", res)
             text == Proc("version", <<"terraform", "version">>, "RunCmd", textRes)
         IN  procs' = IF res.Success /\ res.Output # <<>>
                      THEN procs \o <<json>>
                      ELSE procs \o <<json, text>>
    /\ mpc' = "Chdir"
    /\ UNCHANGED <<auxVars, concVars, runnerVars, environ, tfCommand, config, fs, execMode, checked,
                   workspaceName, tfWorkspace, execErr, actionExit, tfExit>>

\* os.Chdir(paths.ModulePath)
Chdir ==
    /\ mpc = "Chdir"
    /\ \E ok \in BOOLEAN :
         IF ok
         THEN /\ mpc' = "ensureWorkspace"
              /\ execErr' = execErr
         ELSE /\ mpc' = "cli"
              /\ execErr' = PlainError(<<"failed to change to module directory">>)
    /\ UNCHANGED <<auxVars, concVars, runnerVars, environ, tfCommand, config, fs, execMode, checked,
                   workspaceName, procs, tfWorkspace, actionExit, tfExit>>

\* Execute: the actions that go without the workspace check
SkipsWorkspaceCheck(action) == action \in {"workspace", "init", "fmt"}

\* flags of the two RunCmd calls of ensureWorkspace
WorkspaceListFlags ==
    [DefaultCmdFlags EXCEPT !.PrintOutput = FALSE, !.PrintMessage = FALSE]
WorkspaceNewFlags == DefaultCmdFlags

\* the lines `terraform workspace list` prints: the selected workspace with
\* an asterisk, the others indented
WorkspaceListing(f, name) ==
    CASE f.workspace = "absent" -> << <<"*", " ", "default">> >>
      [] f.workspace = "listed" -> << <<"*", " ", "default">>, <<" ", " ">> \o name >>
      [] f.workspace = "current" -> << <<" ", " ", "default">>, <<"*", " ">> \o name >>

\* strings.TrimSpace(line), and without its "*" prefix when it has one
TrimmedLine(line) ==
    LET trimmed == TrimSpace(line)
    IN  IF trimmed # <<>> /\ Head(trimmed) = "*" THEN TrimSpace(Tail(trimmed))
        ELSE trimmed

\* ensureWorkspace looks for the name among the lines of result.Output
WorkspaceListed(res, name) ==
    \E i \in DOMAIN res.Output : TrimmedLine(res.Output[i]) = name

\* variant: a failed `terraform workspace new` is not looked at
CreateFailedIgnored(res) == FALSE

\* if !result.Success { return fmt.Errorf("failed to create workspace ...") }
CreateFailed(res) == ~res.Success

\* Execute: the workspace check, unless the action goes without it
ensureWorkspace ==
    /\ mpc = "ensureWorkspace"
    /\ IF SkipsWorkspaceCheck(tfCommand.Action)
       THEN /\ mpc' = "executeTerraformAction"
            /\ UNCHANGED <<procs, tfWorkspace, execErr>>
       ELSE \E listOutcome \in Outcomes, newOutcome \in Outcomes :
              LET printed == IF listOutcome = LaunchFailed THEN <<>>
                             ELSE WorkspaceListing(fs, workspaceName)
                  listRes == RunCmdResult(WorkspaceListFlags, listOutcome, printed)
                  newRes == RunCmdResult(WorkspaceNewFlags, newOutcome, <<>>)
                  list == [Proc("workspace", <<"terraform", "workspace", "list">>,
                                "RunCmd", listRes) EXCEPT !.stdout = printed]
                  new == Proc("workspace",
                              <<"terraform", "workspace", "new", workspaceName>>,
                              "RunCmd", newRes)
              IN  IF WorkspaceListed(listRes, workspaceName)
                  THEN /\ procs' = procs \o <<list>>
                       /\ tfWorkspace' = workspaceName
                       /\ mpc' = "executeTerraformAction"
                       /\ execErr' = execErr
                  ELSE /\ procs' = procs \o <<list, new>>
                       /\ IF ~CreateFailed(newRes)
                          THEN /\ tfWorkspace' = workspaceName
                               /\ mpc' = "executeTerraformAction"
                               /\ execErr' = execErr
                          ELSE /\ tfWorkspace' = tfWorkspace
                               /\ mpc' = "cli"
                               /\ execErr' = PlainError(<<"failed to ensure workspace">>)
    /\ UNCHANGED <<auxVars, concVars, runnerVars, environ, tfCommand, config, fs, execMode, checked,
                   workspaceName, actionExit, tfExit>>

\* the actions whose command line carries -var-file and the tfm variables
VarFileActions == {"plan", "apply", "destroy", "import", "refresh"}

\* the actions that ask the operator for approval
ApprovalActions == {"apply", "destroy", "import"}

\* the terraform subcommand an action runs
SubCommand(action) ==
    CASE action = "apply_plan" -> "apply"
      [] action = "format" -> "fmt"
      [] OTHER -> action

\* the arguments added "in case we're running in unattended mode"
UnattendedArgs(action) ==
    CASE action = "apply" -> <<"-input=false", "-auto-approve">>
      [] action = "apply_plan" -> <<"-input=false">>
      [] action = "destroy" -> <<"-auto-approve">>
      [] action = "import" -> <<"-input=false", "-auto-approve">>
      [] OTHER -> <<>>

\* the command line an action function builds
terraformCmd(c, e, planExists) ==
    <<"terraform", SubCommand(c.Action)>>
    \o (IF c.Action \in VarFileActions THEN <<"-var-file", "extraVars">>
        ELSE IF c.Action = "apply_plan" \/ (c.Action = "show" /\ planExists)
        THEN <<"planFile">>
        ELSE <<>>)
    \o (IF IsUnattended(e) THEN UnattendedArgs(c.Action) ELSE <<>>)
    \o c.ActionFlags

\* the runner entry point an action function calls
ActionRunner(action, e) ==
    IF action \in ApprovalActions /\ ~IsUnattended(e) THEN "RunCmdInteractive"
    ELSE "RunCmd"

\* the flags the action's run is made with
ActionCmdFlags(action, e) ==
    IF action = "apply_plan" \/ (action \in ApprovalActions /\ IsUnattended(e))
    THEN [DefaultCmdFlags EXCEPT !.PrintMessage = FALSE]
    ELSE DefaultCmdFlags

\* executeTerraformAction and the action function it selects
executeTerraformAction ==
    /\ mpc = "executeTerraformAction"
    /\ IF tfCommand.Action \notin SupportedActions
       THEN /\ execErr' = PlainError(<<"unsupported terraform action">>)
            /\ UNCHANGED <<procs, actionExit>>
       ELSE \E outcome \in Outcomes, planExists \in BOOLEAN :
              LET fl == ActionCmdFlags(tfCommand.Action, environ)
                  res == RunCmdResult(fl, outcome, <<>>)
              IN  /\ procs' = procs \o <<Proc("action",
                                              terraformCmd(tfCommand, environ, planExists),
                                              ActionRunner(tfCommand.Action, environ), res)>>
                  /\ actionExit' = outcome
                  /\ execErr' = NewExitCodeError("command failed", res.ExitCode)
    /\ mpc' = "cli"
    /\ UNCHANGED <<auxVars, concVars, runnerVars, environ, tfCommand, config, fs, execMode, checked,
                   workspaceName, tfWorkspace, tfExit>>

\* variant: every error ends the process with status 1
ExitStatusOneOnError(err) == IF err = NoErr THEN 0 ELSE 1

\* the exit status cli.Execute and main give the tf process for Execute's error
ExitStatus(err) ==
    IF err = NoErr THEN 0
    ELSE IF err.kind = "ExitCodeError" THEN err.ExitCode
    ELSE 1

\* cli.Execute after tfm.Execute returned, and main
cliExecute ==
    /\ mpc = "cli"
    /\ tfExit' = ExitStatus(execErr)
    /\ mpc' = "done"
    /\ UNCHANGED <<auxVars, concVars, runnerVars, environ, tfCommand, config, fs, execMode, checked,
                   workspaceName, procs, tfWorkspace, execErr, actionExit>>

InitManager ==
    /\ NoCalls
    /\ AuxIdle
    /\ environ \in ManagerEnvs
    /\ tfCommand \in TfCommands
    /\ config \in Configs
    /\ fs \in FileSystems
    /\ mpc = "Execute"
    /\ ManagerStart
    /\ RunnerIdle

NextManager ==
    \/ Execute
    \/ getTerraformVersion
    \/ Chdir
    \/ ensureWorkspace
    \/ executeTerraformAction
    \/ cliExecute

SpecManager == InitManager /\ [][NextManager]_vars

(***************************************************************************)
(* detectExecMode over the environments, as the first line of Execute      *)
(* calls it.                                                               *)
(***************************************************************************)
DetectedExecMode ==
    /\ mpc = "detectExecMode"
    /\ execMode' = detectExecMode(environ)
    /\ mpc' = "detected"
    /\ UNCHANGED <<auxVars, concVars, runnerVars, environ, tfCommand, config, fs, checked, workspaceName,
                   procs, tfWorkspace, execErr, actionExit, tfExit>>

InitExecMode ==
    /\ NoCalls
    /\ AuxIdle
    /\ environ \in Envs
    /\ tfCommand = CHOOSE c \in TfCommands : TRUE
    /\ config = CHOOSE c \in Configs : TRUE
    /\ fs = CHOOSE f \in FileSystems : TRUE
    /\ mpc = "detectExecMode"
    /\ ManagerStart
    /\ RunnerIdle

NextExecMode == DetectedExecMode

SpecExecMode == InitExecMode /\ [][NextExecMode]_vars

(***************************************************************************)
(* generateWorkspace over the names, as Execute calls it.                  *)
(***************************************************************************)
\* the commands and configurations the workspace name is computed for
WorkspaceCommands ==
    [Product : PartNames, Module : {<<"m">>, <<"m", "/", "n">>}, Env : EnvNames,
     ModuleInstance : PartNames, Action : {"plan"}, ActionFlags : {<<>>},
     Workspace : {<<>>}]

WorkspaceConfigs == [RepoName : {<<"r">>, <<"r", "/", "s">>}]

GeneratedWorkspace ==
    /\ mpc = "generateWorkspace"
    /\ workspaceName' = generateWorkspace(tfCommand, config)
    /\ mpc' = "generated"
    /\ UNCHANGED <<auxVars, concVars, runnerVars, environ, tfCommand, config, fs, execMode, checked,
                   procs, tfWorkspace, execErr, actionExit, tfExit>>

InitWorkspaceName ==
    /\ NoCalls
    /\ AuxIdle
    /\ environ = EmptyEnv
    /\ tfCommand \in WorkspaceCommands
    /\ config \in WorkspaceConfigs
    /\ fs = CHOOSE f \in FileSystems : TRUE
    /\ mpc = "generateWorkspace"
    /\ ManagerStart
    /\ RunnerIdle

NextWorkspaceName == GeneratedWorkspace

SpecWorkspaceName == InitWorkspaceName /\ [][NextWorkspaceName]_vars

(***************************************************************************)
(* Two RunCmd calls in pipe-capture mode made from different goroutines.   *)
(* Everything execCommand works with is a local of its activation (the     *)
(* pipes, output, the wait groups, outputChan), so each call has its own   *)
(* record; the children write to their stdout.                             *)
(***************************************************************************)
\* flags of the concurrent calls: decorated, printed
CaptureFlags == [DefaultCmdFlags EXCEPT !.DecorateOutput = TRUE]

\* the i-th line the child of call c writes
CallLine(c, i) == <<"call", c, i>>

\* the locals of one activation of execCommand before its first step
CallStart ==
    [pc |-> "execCommand", child |-> "none", childExit |-> -1, wrote |-> <<>>,
     pipe |-> <<>>, pipeState |-> PerStream("none"), pump |-> PerStream("none"),
     pumpLine |-> NoLine, output |-> <<>>, outputChan |-> <<>>, chanState |-> "none",
     printer |-> "none", result |-> NoResult]

\* no goroutine of the host has panicked
CallsAlive == \A c \in Calls : runs[c].pc # "panicked"

\* StdoutPipe, StderrPipe, Start, make(chan outputLine), the three goroutines
CallStartCapture(c) ==
    /\ runs[c].pc = "execCommand"
    /\ runs' = [runs EXCEPT ![c].pipeState = PerStream("open"),
                            ![c].child = "running",
                            ![c].chanState = "open",
                            ![c].printer = "recv",
                            ![c].pump = PerStream("scan"),
                            ![c].pc = "Wait"]
    /\ UNCHANGED <<auxVars, runnerVars, managerVars>>

\* the child of call c writes its next line to its stdout
CallChildWrite(c) ==
    /\ runs[c].child = "running"
    /\ CallsAlive
    /\ Len(runs[c].wrote) < CallLines
    /\ runs[c].pipeState["stdout"] = "open"
    /\ Len(runs[c].pipe) < PipeCap
    /\ LET line == CallLine(c, Len(runs[c].wrote) + 1) IN
       runs' = [runs EXCEPT ![c].wrote = Append(@, line),
                            ![c].pipe = Append(@, line)]
    /\ UNCHANGED <<auxVars, runnerVars, managerVars>>

\* the child of call c exits
CallChildExit(c) ==
    /\ runs[c].child = "running"
    /\ CallsAlive
    /\ \E code \in ExitCodes :
         runs' = [runs EXCEPT ![c].child = "exited", ![c].childExit = code]
    /\ UNCHANGED <<auxVars, runnerVars, managerVars>>

\* cmd.Wait() of call c
CallWait(c) ==
    /\ runs[c].pc = "Wait"
    /\ runs[c].child = "exited"
    /\ LET closed == [s \in Streams |-> WaitClosesPipe(runs[c].pipeState[s])] IN
       runs' = [runs EXCEPT ![c].pipeState = closed,
                            ![c].pipe = IF closed["stdout"] = "closed" THEN <<>> ELSE @,
                            ![c].pc = "pumpWg.Wait"]
    /\ UNCHANGED <<auxVars, runnerVars, managerVars>>

\* the content of the pipe a pump goroutine of call c reads
CallPipe(c, s) == IF s = "stdout" THEN runs[c].pipe ELSE <<>>

\* one scanner.Scan() of a pump goroutine of call c
CallPumpScan(c, s) ==
    /\ runs[c].pump[s] = "scan"
    /\ CallsAlive
    /\ IF runs[c].pipeState[s] = "open" /\ CallPipe(c, s) # <<>>
       THEN runs' = [runs EXCEPT ![c].pipe = Tail(@),
                                 ![c].output = WriteString(@, Head(runs[c].pipe)),
                                 ![c].pumpLine = Head(runs[c].pipe),
                                 ![c].pump[s] = IF CaptureFlags.PrintOutput
                                                THEN "send" ELSE "scan"]
       ELSE /\ runs[c].pipeState[s] = "closed" \/ runs[c].child = "exited"
            /\ runs' = [runs EXCEPT ![c].pump[s] = "done"]
    /\ UNCHANGED <<auxVars, runnerVars, managerVars>>

\* outputChan <- outputLine{...} of a pump goroutine of call c
CallPumpSend(c, s) ==
    /\ runs[c].pump[s] = "send"
    /\ CallsAlive
    /\ IF runs[c].chanState = "closed"
       THEN runs' = [runs EXCEPT ![c].pc = "panicked"]
       ELSE /\ Len(runs[c].outputChan) < ChanCap
            /\ runs' = [runs EXCEPT
                          ![c].outputChan =
                              Append(@, outputLine(s, runs[c].pumpLine, CaptureFlags)),
                          ![c].pump[s] = "scan"]
    /\ UNCHANGED <<auxVars, runnerVars, managerVars>>

\* one round of for line := range outputChan of the printer of call c
CallPrinter(c) ==
    /\ runs[c].printer = "recv"
    /\ CallsAlive
    /\ IF runs[c].outputChan # <<>>
       THEN runs' = [runs EXCEPT ![c].outputChan = Tail(@)]
       ELSE /\ runs[c].chanState = "closed"
            /\ runs' = [runs EXCEPT ![c].printer = "done"]
    /\ UNCHANGED <<auxVars, runnerVars, managerVars>>

\* pumpWg.Wait() and close(outputChan) of call c
CallPumpWgWait(c) ==
    /\ runs[c].pc = "pumpWg.Wait"
    /\ \A s \in Streams : runs[c].pump[s] = "done"
    /\ runs' = [runs EXCEPT ![c].chanState = "closed", ![c].pc = "printWg.Wait"]
    /\ UNCHANGED <<auxVars, runnerVars, managerVars>>

\* printWg.Wait() and the result of call c
CallPrintWgWait(c) ==
    /\ runs[c].pc = "printWg.Wait"
    /\ runs[c].printer = "done"
    /\ runs' = [runs EXCEPT
                  ![c].result = ExitResult(CaptureFlags, runs[c].childExit,
                                           runs[c].output, <<>>),
                  ![c].pc = "returned"]
    /\ UNCHANGED <<auxVars, runnerVars, managerVars>>

InitConcurrent ==
    /\ AuxIdle
    /\ runs = [c \in Calls |-> CallStart]
    /\ RunnerIdle
    /\ ManagerIdle

NextConcurrent ==
    \/ \E c \in Calls : CallStartCapture(c)
    \/ \E c \in Calls : CallChildWrite(c)
    \/ \E c \in Calls : CallChildExit(c)
    \/ \E c \in Calls : CallWait(c)
    \/ \E c \in Calls, s \in Streams : CallPumpScan(c, s)
    \/ \E c \in Calls, s \in Streams : CallPumpSend(c, s)
    \/ \E c \in Calls : CallPrinter(c)
    \/ \E c \in Calls : CallPumpWgWait(c)
    \/ \E c \in Calls : CallPrintWgWait(c)

SpecConcurrent == InitConcurrent /\ [][NextConcurrent]_vars

(***************************************************************************)
(* The status line of parseStatus.  A string is a sequence of pieces: a    *)
(* run of n ASCII characters, one non-ASCII character of n bytes, or one   *)
(* colour escape sequence of n bytes.                                      *)
(***************************************************************************)
\* longest message explored
MaxMsgLen == 125

\* totalWidth := 120
totalWidth == 120
\* statusVisualLength := 5
statusVisualLength == 5

Ascii(n) == [cls |-> "ascii", n |-> n]
Glyph(bytes) == [cls |-> "glyph", n |-> bytes]
Ansi == [cls |-> "ansi", n |-> 5]

\* len(str): the number of bytes of a Go string
RECURSIVE ByteLen(_)
ByteLen(str) == IF str = <<>> THEN 0 ELSE Head(str).n + ByteLen(Tail(str))

\* the number of terminal columns a string without escape sequences takes
RECURSIVE Columns(_)
Columns(str) ==
    IF str = <<>> THEN 0
    ELSE (IF Head(str).cls = "ascii" THEN Head(str).n ELSE 1) + Columns(Tail(str))

stripAnsiCodes(str) == SelectSeq(str, LAMBDA piece : piece.cls # "ansi")

getVisualLength(str) == ByteLen(stripAnsiCodes(str))

\* a string in colour: AddEmphasisGray, AddEmphasisGreen, AddEmphasisRed
Coloured(str) == <<Ansi>> \o str \o <<Ansi>>

\* the messages explored: plain, with a coloured part (as the manager's
\* messages have), and with one two-byte character (a name such as "café")
StatusMessages ==
    UNION {{<<Ascii(n)>>, Coloured(<<Ascii(n)>>), <<Ascii(n), Glyph(2)>>} :
           n \in 1..MaxMsgLen}

\* "[" + GetEntrypointScript() + "]" for the names tf and tf-manage2
Entrypoints == {<<Ascii(4)>>, <<Ascii(12)>>}

\* "[ ✓ ]" and "[ ✗ ]": the mark is one character of three bytes, in colour
statusIndicator(success) == <<Ascii(2)>> \o Coloured(<<Glyph(3)>>) \o <<Ascii(2)>>

outcomeMessage(success, strict) ==
    IF success THEN <<Ascii(6)>>
    ELSE <<Ascii(1)>> \o Coloured(<<Ascii(IF strict THEN 11 ELSE 13)>>) \o <<Ascii(1)>>

paddingWidth(message, entrypoint) ==
    LET width == totalWidth - getVisualLength(entrypoint) - 1
                 - getVisualLength(message) - 1 - statusVisualLength
    IN  IF width < 1 THEN 1 ELSE width

\* fmt.Sprintf("%s %s%*s %s", entrypointWithColor, message, paddingWidth, "",
\* statusIndicator)
StatusFormat(message, entrypoint, success) ==
    Coloured(entrypoint) \o <<Ascii(1)>> \o message
    \o <<Ascii(paddingWidth(message, entrypoint))>> \o <<Ascii(1)>>
    \o statusIndicator(success)

\* one call of parseStatus with PrintStatus, up to fmt.Println(format)
PrintStatusLine ==
    /\ present # NoPresent
    /\ ~present.printed
    /\ LET base == StatusFormat(present.message, present.entrypoint, present.success)
       IN  present' = [present EXCEPT
                          !.padding = paddingWidth(present.message, present.entrypoint),
                          !.base = base,
                          !.line = IF present.printOutcome
                                   THEN base \o <<Ascii(1)>>
                                        \o outcomeMessage(present.success, present.strict)
                                   ELSE base,
                          !.printed = TRUE]
    /\ UNCHANGED <<runnerVars, managerVars, concVars, completion>>

InitStatusLine ==
    /\ present \in [message : StatusMessages, entrypoint : Entrypoints,
                    success : BOOLEAN, strict : BOOLEAN, printOutcome : BOOLEAN,
                    padding : {0}, base : {<<>>}, line : {<<>>}, printed : {FALSE}]
    /\ completion = NoCompletion
    /\ NoCalls
    /\ RunnerIdle
    /\ ManagerIdle

NextStatusLine == PrintStatusLine

SpecStatusLine == InitStatusLine /\ [][NextStatusLine]_vars

(***************************************************************************)
(* RunCmd on command strings with an unmatched quote.                      *)
(***************************************************************************)
\* the scan of parseCommand ends inside a quoted string
EndsInQuotes(cmdStr) == ParseLoop(TrimSpace(cmdStr), 1, ParseInit).inQuotes

\* a lone quote, a trailing quote, an argument and a program opened but not
\* closed
UnbalancedCommands ==
    {<<"'">>, <<"a", "\"">>, <<"a", " ", "'", "a">>, <<"\"", "a", " ", "a">>}

\* the callers' flag sets: default, silent, strict (RunCmd, RunCmdSilent,
\* RunCmdStrict) with and without decoration
UnbalancedFlags ==
    {f \in FlagSpace : /\ f.PrintMessage /\ f.PrintStatus /\ f.PrintOutput
                       /\ f.ValidExitCodes = {0}}

InitUnbalanced ==
    /\ NoCalls
    /\ AuxIdle
    /\ command \in UnbalancedCommands
    /\ flags \in UnbalancedFlags
    /\ pc = "RunCmd"
    /\ RunnerStart
    /\ ManagerIdle

SpecUnbalanced == InitUnbalanced /\ [][Next]_vars

(***************************************************************************)
(* Completion.SuggestEnvironments(product, module) over a directory tree.  *)
(* The tree gives what productPath is, whether modulePath exists, and for  *)
(* each name what lies under productPath.                                  *)
(***************************************************************************)
\* os.ReadDir returns the entries sorted by filename
EnvironmentNames == <<"dev", "prod", "staging">>

\* an entry of productPath: none, a file, a directory without <module>, a
\* directory with <module>
EntryKinds == {"absent", "file", "dir", "dirWithModule"}

Trees ==
    [product : {"absent", "file", "dir"}, module : BOOLEAN,
     entries : [1..Len(EnvironmentNames) -> EntryKinds]]

NoError == "nil"

\* os.ReadDir(productPath): the indexes of the entries present, in order
ReadDir(tree) ==
    SelectSeq([i \in 1..Len(EnvironmentNames) |-> i],
              LAMBDA i : tree.entries[i] # "absent")

\* variant: every directory counts as an environment of the module
StatModuleDirAlways(tree, i) == TRUE

\* os.Stat(filepath.Join(productPath, entry.Name(), module)) returns no error
StatModuleDir(tree, i) == tree.entries[i] = "dirWithModule"

\* entry.IsDir()
IsDir(tree, i) == tree.entries[i] \in {"dir", "dirWithModule"}

SuggestReturn(err) ==
    completion' = [completion EXCEPT !.pc = "returned", !.err = err]

\* if _, err := os.Stat(productPath); os.IsNotExist(err) { return ... }
SuggestStatProduct ==
    /\ completion # NoCompletion
    /\ completion.pc = "statProduct"
    /\ IF completion.tree.product = "absent"
       THEN SuggestReturn("product path does not exist")
       ELSE completion' = [completion EXCEPT !.pc = "statModule"]
    /\ UNCHANGED <<runnerVars, managerVars, concVars, present>>

\* if _, err := os.Stat(modulePath); os.IsNotExist(err) { return ... }
SuggestStatModule ==
    /\ completion # NoCompletion
    /\ completion.pc = "statModule"
    /\ IF ~completion.tree.module
       THEN SuggestReturn("module path does not exist")
       ELSE completion' = [completion EXCEPT !.pc = "readDir"]
    /\ UNCHANGED <<runnerVars, managerVars, concVars, present>>

\* entries, err := os.ReadDir(productPath)
SuggestReadDir ==
    /\ completion # NoCompletion
    /\ completion.pc = "readDir"
    /\ IF completion.tree.product # "dir"
       THEN SuggestReturn("failed to read directory")
       ELSE completion' = [completion EXCEPT !.pc = "scan",
                                             !.entries = ReadDir(completion.tree)]
    /\ UNCHANGED <<runnerVars, managerVars, concVars, present>>

\* one turn of for _, entry := range entries
SuggestScan ==
    /\ completion # NoCompletion
    /\ completion.pc = "scan"
    /\ completion.entries # <<>>
    /\ LET entry == Head(completion.entries)
       IN  completion' =
             [completion EXCEPT
                !.entries = Tail(@),
                !.environments =
                    IF IsDir(completion.tree, entry) /\ StatModuleDir(completion.tree, entry)
                    THEN Append(@, EnvironmentNames[entry])
                    ELSE @]
    /\ UNCHANGED <<runnerVars, managerVars, concVars, present>>

\* after the loop: the message on stderr and the error, or one fmt.Println
\* for every environment
SuggestPrint ==
    /\ completion # NoCompletion
    /\ completion.pc = "scan"
    /\ completion.entries = <<>>
    /\ IF completion.environments = <<>>
       THEN completion' = [completion EXCEPT
                              !.pc = "returned",
                              !.stderr = <<"Search pattern is empty">>,
                              !.err = "no environments found"]
       ELSE completion' = [completion EXCEPT
                              !.pc = "returned",
                              !.stdout = completion.environments]
    /\ UNCHANGED <<runnerVars, managerVars, concVars, present>>

InitCompletion ==
    /\ \E tree \in Trees :
         completion = [tree |-> tree, pc |-> "statProduct", entries |-> <<>>,
                       environments |-> <<>>, stdout |-> <<>>, stderr |-> <<>>,
                       err |-> NoError]
    /\ present = NoPresent
    /\ NoCalls
    /\ RunnerIdle
    /\ ManagerIdle

NextCompletion ==
    \/ SuggestStatProduct
    \/ SuggestStatModule
    \/ SuggestReadDir
    \/ SuggestScan
    \/ SuggestPrint

SpecCompletion == InitCompletion /\ [][NextCompletion]_vars

(***************************************************************************)
(* Properties.                                                             *)
(***************************************************************************)
\* execSystemCommand has produced its result
ExecDone == pc \in {"parseStatus", "returned", "exited"}

\* the texts of the relayed lines on the console that carry the given tag
RelayTexts(tag) ==
    LET sel == SelectSeq(console, LAMBDA e : e.kind = "relay" /\ e.tag = tag)
    IN  [i \in 1..Len(sel) |-> sel[i].text]

\* the command consists of white space only (or is empty)
IsBlank(cmd) == cmd \in BlankCommands

\* C1: in pipe-capture mode, once the child has exited and the result exists,
\* the captured stdout is exactly the lines the child wrote to stdout, in
\* order, and the captured stderr exactly the lines it wrote to stderr.
C1_CapturedExactly ==
    (ExecDone /\ flags.DecorateOutput /\ launch = "started")
        => /\ result.Output = JoinLines(wrote["stdout"])
           /\ result.Error = JoinLines(wrote["stderr"])

\* C2: in pipe-capture mode the result exists (and RunCmd goes on to return)
\* only when the child has exited, both pump goroutines have ended and the
\* printer has ended; nothing is being read, captured or printed any more.
C2_ReturnAfterDrains ==
    (ExecDone /\ flags.DecorateOutput /\ launch = "started")
        => /\ child = "exited"
           /\ \A s \in Streams : pump[s] = "done"
           /\ printer = "done"
           /\ writing = {}
           /\ outputChan = <<>>

C2_Witness ==
    /\ pc = "returned"
    /\ flags.DecorateOutput
    /\ launch = "started"
    /\ output["stdout"] # <<>>
    /\ output["stderr"] # <<>>

\* C3: when the result is unsuccessful and flags.Strict is set, RunCmd never
\* returns to its caller; the host program ends with the result's exit code.
C3_StrictFailureTerminates ==
    (result # NoResult /\ flags.Strict)
        => (~result.Success
              => /\ pc # "returned"
                 /\ (pc = "exited" => hostExit = result.ExitCode))

\* C4 (as stated): every result has Success equal to the membership of its
\* ExitCode in flags.ValidExitCodes, on every return path.
C4_SuccessIffValidExit ==
    ExecDone => (result.Success = (result.ExitCode \in flags.ValidExitCodes))

\* C4 (amended): the result of a child that was started and waited for has
\* Success equal to the membership of its ExitCode in flags.ValidExitCodes;
\* a launch failure and an empty command yield ExitCode 1 and Success false
\* whatever the valid exit codes are.
C4_SuccessIffValidExitWhenLaunched ==
    ExecDone =>
        IF launch = "started"
        THEN /\ result.ExitCode = childExit
             /\ result.Success = (result.ExitCode \in flags.ValidExitCodes)
        ELSE /\ result.ExitCode = 1
             /\ ~result.Success

C4_Witness ==
    /\ pc = "returned"
    /\ launch = "started"
    /\ result.ExitCode = 1
    /\ result.Success
    /\ 0 \notin flags.ValidExitCodes

\* C5: in pipe-capture mode with PrintOutput, once the run is over every
\* line the child wrote to a stream has been printed exactly once with the
\* tag of its stream, and the lines of one stream appear in written order.
C5_PrintedOnceInOrder ==
    (ExecDone /\ flags.DecorateOutput /\ flags.PrintOutput /\ launch = "started")
        => /\ RelayTexts("[cmd]") = wrote["stdout"]
           /\ RelayTexts("[err]") = wrote["stderr"]

\* C6: only the printer goroutine ever has a write of a relayed line in
\* progress, so no two such writes overlap, and every relayed line on the
\* console was written with no other write under way.
C6_LineAtomic ==
    /\ writing \subseteq {"printer"}
    /\ \A i \in 1..Len(console) : console[i].kind = "relay" => console[i].clean

C6_Witness ==
    /\ printer = "write"
    /\ \A s \in Streams : pump[s] = "send"
    /\ \E i \in 1..Len(console) : console[i].kind = "relay"

\* C7: a launched invocation is in exactly one mode, chosen by DecorateOutput:
\* without it the child has the host's stdin, stdout and stderr and there is
\* no pipe, queue, pump or printer; with it stdout and stderr are pipes and
\* stdin is not the host's.  Never both host stdin and a pipe.
C7_ExactlyOneMode ==
    launch = "started" =>
        /\ IF flags.DecorateOutput
           THEN /\ wiring = [stdin |-> "null", stdout |-> "pipe", stderr |-> "pipe"]
                /\ \A s \in Streams : pipeState[s] # "none" /\ pump[s] # "none"
           ELSE /\ wiring = [stdin |-> "host", stdout |-> "host", stderr |-> "host"]
                /\ \A s \in Streams : pipeState[s] = "none" /\ pump[s] = "none"
                /\ printer = "none"
                /\ chanState = "none"
        /\ ~(wiring.stdin = "host" /\ "pipe" \in {wiring.stdout, wiring.stderr})

C7_Witness ==
    /\ launch = "started"
    /\ ~flags.DecorateOutput
    /\ child = "exited"
    /\ \E i \in 1..Len(console) : console[i].kind = "child"

\* C8: for an empty or white-space-only command nothing is ever launched (no
\* child, pipe, pump or printer), and the result is ExitCode 1, Success false,
\* Error "empty command".
C8_EmptyCommand ==
    IsBlank(command) =>
        /\ launch = "none" /\ child = "none" /\ wiring = NoWiring
        /\ pc \in {"RunCmd", "execSystemCommand", "parseStatus", "returned", "exited"}
        /\ \A s \in Streams : pipeState[s] = "none" /\ pump[s] = "none"
        /\ printer = "none" /\ chanState = "none"
        /\ ExecDone => /\ result.ExitCode = 1
                       /\ result.Success = FALSE
                       /\ result.Error = << <<"empty command">> >>

C8_Witness ==
    /\ pc = "returned"
    /\ command # <<>>
    /\ IsBlank(command)

\* C9: when the child could not be started the result is ExitCode 1, Success
\* false and a non-empty Error, in both modes and for every set of valid exit
\* codes, and no child, pump or printer exists.
C9_LaunchFailure ==
    launch = "failed" =>
        /\ ExecDone
        /\ result.ExitCode = 1
        /\ result.Success = FALSE
        /\ result.Error # <<>>
        /\ child = "none"
        /\ \A s \in Streams : pump[s] = "none"
        /\ printer = "none"

C9_Witness ==
    /\ pc = "returned"
    /\ launch = "failed"
    /\ flags.DecorateOutput
    /\ 1 \in flags.ValidExitCodes

\* C10: without Strict the host program neither panics nor exits: outputChan
\* is closed only once both pump goroutines have ended, so no send hits a
\* closed channel, and a returned RunCmd has a non-nil result.
C10_NoPanic ==
    /\ pc # "panicked"
    /\ chanState = "closed" => \A s \in Streams : pump[s] = "done"
    /\ ~flags.Strict => /\ pc # "exited"
                        /\ (pc = "returned" => result # NoResult)

C10_Witness ==
    /\ pc = "returned"
    /\ ~flags.Strict
    /\ chanState = "closed"
    /\ ~result.Success
    /\ \E i \in 1..Len(console) : console[i].kind = "relay"

\* the status lines on the host's console
StatusLines == SelectSeq(console, LAMBDA e : e.kind = "status")

\* C11: a run with PrintStatus prints exactly one status line, carrying the
\* result's success, once the result is known and before RunCmd returns or
\* the program terminates (strict abort included); while the result is not
\* yet presented there is none, and a run without PrintStatus prints none.
C11_OneStatusLine ==
    IF pc \in {"returned", "exited"}
    THEN IF flags.PrintStatus
         THEN /\ Len(StatusLines) = 1
              /\ StatusLines[1].ok = result.Success
              /\ console[Len(console)].kind \in {"status", "error"}
         ELSE StatusLines = <<>>
    ELSE StatusLines = <<>>

\* a strict abort: the program ended with the status line on the console
C11_Witness ==
    /\ pc = "exited"
    /\ flags.PrintStatus
    /\ launch = "started"
    /\ Len(StatusLines) = 1
    /\ ~StatusLines[1].ok

\* the child's output as it appears on the host's console, passed through
\* or relayed
ChildOutputOnConsole ==
    SelectSeq(console, LAMBDA e : e.kind \in {"child", "relay"})

\* C20: a run with PrintOutput = FALSE is silent with respect to the child's
\* output: nothing the child wrote to its stdout or stderr appears on the
\* host's stdout or stderr, in pass-through mode as in pipe-capture mode.
C20_SilentWithoutPrintOutput ==
    ~flags.PrintOutput => ChildOutputOnConsole = <<>>

(***************************************************************************)
(* Properties of the manager.                                              *)
(***************************************************************************)
\* the launched processes of a step of Execute
ProcsOf(step) == SelectSeq(procs, LAMBDA p : p.step = step)

\* an argument occurs on a command line
HasArg(cmdline, arg) == \E i \in DOMAIN cmdline : cmdline[i] = arg

\* the labels detectExecMode reports
UnattendedLabel == <<Red, "unattended", Reset>>
OperatorLabel == <<Green, "operator", Reset>>

\* C13: when the mode was detected as unattended, the command line of apply,
\* destroy and import carries -auto-approve (and -input=false for apply and
\* import) and is run through RunCmd; in operator mode it is run through
\* RunCmdInteractive without those arguments.
C13_UnattendedAutoApproves ==
    \A i \in DOMAIN procs :
        (procs[i].step = "action" /\ tfCommand.Action \in {"apply", "destroy", "import"})
        => IF execMode = UnattendedLabel
           THEN /\ HasArg(procs[i].cmdline, "-auto-approve")
                /\ (tfCommand.Action \in {"apply", "import"}
                      => HasArg(procs[i].cmdline, "-input=false"))
                /\ procs[i].runner = "RunCmd"
           ELSE /\ ~HasArg(procs[i].cmdline, "-auto-approve")
                /\ ~HasArg(procs[i].cmdline, "-input=false")
                /\ procs[i].runner = "RunCmdInteractive"

\* C14: once tf has ended after a terraform child ran the action (so the
\* validations and the workspace step succeeded), the exit status of tf is
\* the exit code of that child: 0 for 0, c for c.
C14_ExitCodePassedThrough ==
    (mpc = "done" /\ actionExit \in ExitCodes) => tfExit = actionExit

\* the action's child ended with a code other than 0 and 1, and so did tf
C14_Witness ==
    /\ mpc = "done"
    /\ tfCommand.Action = "plan"
    /\ actionExit = 2
    /\ tfExit = 2

\* C15: detectExecMode reports unattended exactly when TF_EXEC_MODE_OVERRIDE
\* is non-empty, or one of GITHUB_ACTIONS, GITLAB_CI, CIRCLECI, TRAVIS,
\* BUILDKITE, DRONE is "true", or TF_BUILD is "True", or one of JENKINS_URL,
\* BUILD_NUMBER, bamboo_buildKey, TEAMCITY_VERSION, CODEBUILD_BUILD_ID is
\* non-empty, or CI is "true" or "1", or USER is "jenkins"; otherwise it
\* reports operator.  The override wins whatever the other variables hold.
C15_ExecModeDetection ==
    mpc = "detected" =>
        LET indicated ==
                \/ environ["TF_EXEC_MODE_OVERRIDE"] # ""
                \/ \E v \in {"GITHUB_ACTIONS", "GITLAB_CI", "CIRCLECI", "TRAVIS",
                             "BUILDKITE", "DRONE"} : environ[v] = "true"
                \/ environ["TF_BUILD"] = "True"
                \/ \E v \in {"JENKINS_URL", "BUILD_NUMBER", "bamboo_buildKey",
                             "TEAMCITY_VERSION", "CODEBUILD_BUILD_ID"} : environ[v] # ""
                \/ environ["CI"] \in {"true", "1"}
                \/ environ["USER"] = "jenkins"
        IN  execMode = IF indicated THEN UnattendedLabel ELSE OperatorLabel

\* unattended by the Azure DevOps indicator alone, next to a CI variable
\* that does not indicate anything
C15_Witness ==
    /\ mpc = "detected"
    /\ environ["TF_BUILD"] = "True"
    /\ environ["CI"] = "0"
    /\ environ["TF_EXEC_MODE_OVERRIDE"] = ""
    /\ execMode = UnattendedLabel

\* C16: Execute launches no external process (version probe, workspace
\* commands, action) unless the five validations succeeded, performed in the
\* order product directory, repository name, module directory, environment
\* directory, instance .tfvars file; at the first validation that fails it
\* returns an error, having run no later validation and no process.
C16_ValidationsBeforeTerraform ==
    LET order == <<"product", "repo", "module", "env", "config">>
        holds == [product |-> fs.productDir, repo |-> config.RepoName # <<>>,
                  module |-> fs.moduleDir, env |-> fs.envDir, config |-> fs.varFile]
        failing == {i \in 1..5 : ~holds[order[i]]}
    IN  /\ Len(checked) <= 5
        /\ \A i \in DOMAIN checked : checked[i] = order[i]
        /\ \A i \in DOMAIN checked : i < Len(checked) => holds[checked[i]]
        /\ procs # <<>> => (checked = order /\ failing = {})
        /\ (mpc # "Execute" /\ failing # {})
             => /\ \E k \in failing : (\A j \in failing : k <= j) /\ Len(checked) = k
                /\ execErr # NoErr
                /\ execErr.kind = "error"
                /\ procs = <<>>

\* the module directory is missing: tf ended after three validations,
\* without a process
C16_Witness ==
    /\ mpc = "done"
    /\ checked = <<"product", "repo", "module">>
    /\ ~fs.moduleDir
    /\ procs = <<>>
    /\ tfExit = 1

\* C17: for the actions workspace, init, fmt and format the action is run
\* without the workspace check (no terraform workspace list or new, and
\* TF_WORKSPACE not set); for every other action the workspace check has run
\* before the action's process is launched.
C17_WorkspaceCheckBypass ==
    IF tfCommand.Action \in {"workspace", "init", "fmt", "format"}
    THEN /\ ProcsOf("workspace") = <<>>
         /\ tfWorkspace = NoName
    ELSE \A i \in DOMAIN procs :
            procs[i].step = "action"
            => /\ \E j \in 1..(i - 1) : procs[j].step = "workspace"
               /\ tfWorkspace # NoName

\* C18: when the sixth argument workspace=NAME was given, the workspace that
\* Execute checks, creates and selects (TF_WORKSPACE) is NAME and not the
\* name generated from product, repo, module, env and instance.
C18_WorkspaceOverride ==
    tfCommand.Workspace # <<>>
    => /\ workspaceName \in {NoName, tfCommand.Workspace}
       /\ tfWorkspace \in {NoName, tfCommand.Workspace}
       /\ \A i \in DOMAIN procs :
             (procs[i].step = "workspace" /\ HasArg(procs[i].cmdline, "new"))
             => procs[i].cmdline[Len(procs[i].cmdline)] = tfCommand.Workspace

\* the number of slashes among the first n characters of a name
Slashes(name, n) == Cardinality({j \in 1..n : name[j] = "/"})

\* e is name with every "/" replaced by "__", stated position by position
IsSanitized(e, name) ==
    /\ Len(e) = Len(name) + Slashes(name, Len(name))
    /\ \A i \in DOMAIN name :
          LET k == i + Slashes(name, i - 1)
          IN  IF name[i] = "/" THEN e[k] = "_" /\ e[k + 1] = "_"
              ELSE e[k] = name[i]

\* C19: the generated workspace name is product "." repo "." module "." env'
\* "." module_instance, where env' is env with every "/" replaced by "__"
\* and the other four components are used unchanged.
C19_WorkspaceNameFormat ==
    mpc = "generated" =>
        LET head == tfCommand.Product \o <<".">> \o config.RepoName \o <<".">>
                    \o tfCommand.Module \o <<".">>
            tail == <<".">> \o tfCommand.ModuleInstance
            n == Len(workspaceName)
        IN  /\ n >= Len(head) + Len(tail)
            /\ SubSeq(workspaceName, 1, Len(head)) = head
            /\ SubSeq(workspaceName, n - Len(tail) + 1, n) = tail
            /\ IsSanitized(SubSeq(workspaceName, Len(head) + 1, n - Len(tail)),
                           tfCommand.Env)

\* an environment of two slashes between components that keep their slash
C19_Witness ==
    /\ mpc = "generated"
    /\ tfCommand.Env = <<"/", "/">>
    /\ tfCommand.Product = <<"p", "/", "q">>
    /\ workspaceName = <<"p", "/", "q", ".", "r", ".", "m", ".", "_", "_", "_", "_",
                         ".", "p">>

(***************************************************************************)
(* Properties of concurrent calls.                                         *)
(***************************************************************************)
\* the line belongs to the child of call c
OwnLine(c, line) == line[1] = "call" /\ line[2] = c

\* nothing of one call is found in the other: the pipe, the captured buffer
\* and the queue of call c hold lines of its own child only, its queue is
\* closed by its own caller only (after its own pumps have ended), and no
\* send has hit a closed queue
CallsIsolated ==
    /\ CallsAlive
    /\ \A c \in Calls :
          /\ \A i \in DOMAIN runs[c].pipe : OwnLine(c, runs[c].pipe[i])
          /\ \A i \in DOMAIN runs[c].outputChan : OwnLine(c, runs[c].outputChan[i].text)
          /\ \A i \in DOMAIN runs[c].output :
                runs[c].output[i] = <<"\n">> \/ OwnLine(c, runs[c].output[i])
          /\ runs[c].chanState = "closed"
                => /\ runs[c].pc \in {"printWg.Wait", "returned"}
                   /\ \A s \in Streams : runs[c].pump[s] = "done"

\* C12: two concurrent calls in pipe-capture mode share nothing: each call
\* has its own pipes, buffers, queue and goroutines, the captured buffer of
\* each result holds exactly the lines of its own child, and neither call
\* closes or blocks the other's queue.
C12_ConcurrentCallsIndependent ==
    /\ CallsIsolated
    /\ \A c \in Calls :
          runs[c].result # NoResult
          => runs[c].result.Output = JoinLines(runs[c].wrote)

C22_ErrorOnlyOnLaunchFailure ==
    (ExecDone /\ launch = "started") => result.Error = <<>>

\* C23: with PrintStatus false parseStatus is a no-op: for every result,
\* every Strict and every failMessage the step from parseStatus writes
\* nothing to the console, does not end the program and changes nothing but
\* the caller's position, which is the return of RunCmd.
C23_NoStatusNoEffect ==
    [][(pc = "parseStatus" /\ ~flags.PrintStatus)
          => /\ pc' = "returned"
             /\ console' = console
             /\ hostExit' = hostExit
             /\ result' = result
             /\ UNCHANGED <<inputVars, childVars, pipeVars, pumpVars, chanVars,
                            printerVars>>]_vars

\* an unsuccessful strict run without PrintStatus has returned, with no
\* status line and no failure message on the console
C23_Witness ==
    /\ pc = "returned"
    /\ ~flags.PrintStatus
    /\ flags.Strict
    /\ ~result.Success
    /\ hostExit = -1
    /\ \A i \in DOMAIN console : console[i].kind \notin {"status", "error"}

(***************************************************************************)
(* Properties of the status line.                                          *)
(***************************************************************************)
\* C24: for every message whose visual length is below the total width of
\* 120 columns, the status line without the outcome annotation, colour
\* escape sequences stripped, is exactly 120 columns wide (the message
\* fitting the budget left by the entrypoint and the status); when the
\* message exceeds the budget the padding between message and status is one
\* space.
C24_StatusLineWidth ==
    (present # NoPresent /\ present.printed)
    => LET visible == Columns(SelectSeq(present.message, LAMBDA q : q.cls # "ansi"))
           name == Columns(present.entrypoint)
           rendered == Columns(SelectSeq(present.base, LAMBDA q : q.cls # "ansi"))
           budget == 120 - name - 1 - visible - 1 - 5
       IN  /\ (visible < 120 /\ budget >= 1) => rendered = 120
           /\ budget < 1 => present.padding = 1

(***************************************************************************)
(* Properties of commands with an unmatched quote.                         *)
(***************************************************************************)
QuoteKept(parsed) ==
    \/ \E i \in 1..Len(parsed.program) : parsed.program[i] \in Quotes
    \/ \E a \in 1..Len(parsed.args) :
         \E i \in 1..Len(parsed.args[a]) : parsed.args[a][i] \in Quotes

\* C25: a command string with an unmatched quote has one of two outcomes:
\* the dangling quote is kept as a literal character of a token, or the run
\* reports a failure through the error detail without launching anything.
C25_UnbalancedQuote ==
    (EndsInQuotes(command) /\ pc \notin {"RunCmd", "execSystemCommand"})
    => \/ QuoteKept(parseCommand(command))
       \/ /\ launch = "none"
          /\ result # NoResult
          /\ ~result.Success
          /\ result.Error # <<>>

(***************************************************************************)
(* Properties of the environment suggestions.                              *)
(***************************************************************************)
\* the names E that are directories under the product's directory with
\* <product>/E/<module> present
EnvironmentsOf(tree) ==
    IF tree.product # "dir" THEN {}
    ELSE {EnvironmentNames[i] : i \in {j \in 1..Len(EnvironmentNames) :
                                          tree.entries[j] = "dirWithModule"}}

\* C26: SuggestEnvironments prints exactly the names of the directories E
\* under the product's directory for which <product>/E/<module> exists; it
\* returns an error and prints no suggestion when the product path or the
\* module path does not exist or when there is no such E.
C26_SuggestEnvironments ==
    (completion # NoCompletion /\ completion.pc = "returned")
    => LET tree == completion.tree
           expected == EnvironmentsOf(tree)
           printed == {completion.stdout[i] : i \in 1..Len(completion.stdout)}
       IN  IF tree.product # "absent" /\ tree.module /\ expected # {}
           THEN /\ completion.err = NoError
                /\ printed = expected
                /\ Len(completion.stdout) = Cardinality(expected)
           ELSE /\ completion.err # NoError
                /\ completion.stdout = <<>>

\* two environments suggested while a third directory lacks the module
C26_Witness ==
    /\ completion # NoCompletion
    /\ completion.pc = "returned"
    /\ completion.tree.entries = <<"dirWithModule", "dir", "dirWithModule">>
    /\ completion.stdout = <<"dev", "staging">>
    /\ completion.err = NoError

(***************************************************************************)
(* Termination of a pipe-capture run.                                      *)
(***************************************************************************)
\* C27: a pipe-capture run whose child was started eventually ends, with
\* both drain tasks finished, the queue closed and the printer task ended,
\* whatever finite output of lines of any length the child writes before it
\* exits.
C27_CaptureRunReturns ==
    (launch = "started" /\ ~isInteractive(flags))
    ~> /\ pc \in {"returned", "exited"}
       /\ child = "exited"
       /\ \A s \in Streams : pump[s] = "done"
       /\ chanState = "closed"
       /\ printer = "done"

\* the same for a child that writes no line longer than the scanner's buffer
C27_ShortLinesReturn ==
    (launch = "started" /\ ~isInteractive(flags))
    ~> \/ /\ pc \in {"returned", "exited"}
          /\ child = "exited"
          /\ \A s \in Streams : pump[s] = "done"
          /\ chanState = "closed"
          /\ printer = "done"
       \/ \E s \in Streams : PiecesWritten(s) > 0

(***************************************************************************)
(* Order of the host-visible output of one call.                           *)
(***************************************************************************)
\* a line of the child's output on the console, relayed or written by the
\* child itself
IsChildOutput(entry) == entry.kind \in {"relay", "child"}

MessageFirst ==
    (launch # "none" /\ flags.PrintMessage)
    => /\ console # <<>>
       /\ console[1] = InfoLine(<<"message">>)

OutputBeforeStatus ==
    \A i \in 1..Len(console) : \A j \in 1..Len(console) :
        (console[i].kind = "status" /\ IsChildOutput(console[j])) => j < i

\* C28: the message line is on the console before the child is launched,
\* every line of child output is printed before the status line of the call,
\* and nothing is printed once the call has returned.
C28_OutputBracketed ==
    [][/\ MessageFirst'
       /\ OutputBeforeStatus'
       /\ pc \in {"returned", "exited"} => console' = console]_vars

\* a returned capture run: the message, two relayed lines, the status line
C28_Witness ==
    /\ pc = "returned"
    /\ flags.PrintMessage
    /\ Len(console) = 4
    /\ console[1] = InfoLine(<<"message">>)
    /\ console[2].kind = "relay"
    /\ console[3].kind = "relay"
    /\ console[4].kind = "status"

(***************************************************************************)
(* Properties of the workspace check.                                      *)
(***************************************************************************)
\* `terraform workspace list` ran and printed the name, with or without the
\* asterisk of the selected workspace
ReportedByList(name) ==
    \E i \in 1..Len(procs) :
        /\ procs[i].cmdline = <<"terraform", "workspace", "list">>
        /\ \E k \in 1..Len(procs[i].stdout) :
             procs[i].stdout[k] \in {<<" ", " ">> \o name, <<"*", " ">> \o name}

WorkspaceNewLaunched ==
    \E i \in 1..Len(procs) :
        /\ procs[i].step = "workspace"
        /\ HasArg(procs[i].cmdline, "new")

\* C29: when `terraform workspace list` reports the workspace name,
\* ensureWorkspace launches no `terraform workspace new` and ends with the
\* workspace selected; `terraform workspace new` is launched only when the
\* listing lacks the name.
C29_ListedWorkspaceNotCreated ==
    /\ ReportedByList(workspaceName)
       => /\ ~WorkspaceNewLaunched
          /\ tfWorkspace = workspaceName
    /\ WorkspaceNewLaunched => ~ReportedByList(workspaceName)

IsWorkspaceNew(proc) == proc.step = "workspace" /\ HasArg(proc.cmdline, "new")

\* C30: for an action that is not exempt from the workspace check, the
\* action's process is launched only after ensureWorkspace succeeded: the
\* listing ran, a workspace that had to be created was created, and
\* TF_WORKSPACE holds its name; when creating the workspace fails, Execute
\* returns an error and launches no action process.
C30_ActionAfterWorkspace ==
    tfCommand.Action \notin {"workspace", "init", "fmt"}
    => /\ \A i \in 1..Len(procs) :
            procs[i].step = "action"
            => /\ tfWorkspace = workspaceName
               /\ \E j \in 1..(i - 1) :
                    procs[j].cmdline = <<"terraform", "workspace", "list">>
               /\ \A j \in 1..Len(procs) :
                    IsWorkspaceNew(procs[j]) => (j < i /\ procs[j].success)
       /\ (\E j \in 1..Len(procs) : IsWorkspaceNew(procs[j]) /\ ~procs[j].success)
            => /\ \A i \in 1..Len(procs) : procs[i].step # "action"
               /\ tfWorkspace = NoName
               /\ mpc \in {"cli", "done"}
               /\ execErr # NoErr
               /\ mpc = "done" => tfExit = 1

\* tf ... plan: the workspace was created, then the plan was launched
C30_Witness ==
    /\ mpc = "done"
    /\ tfCommand.Action = "plan"
    /\ \E j \in 1..Len(procs) : IsWorkspaceNew(procs[j]) /\ procs[j].success
    /\ procs[Len(procs)].step = "action"
    /\ tfWorkspace = workspaceName

\* tf ... plan: creating the workspace failed and tf ended with status 1
C30_WitnessCreateFailed ==
    /\ mpc = "done"
    /\ tfCommand.Action = "plan"
    /\ \E j \in 1..Len(procs) : IsWorkspaceNew(procs[j]) /\ ~procs[j].success
    /\ tfExit = 1

=============================================================================
